---------------------------- MODULE Spec2Model ----------------------------
(***************************************************************************)
(* A model of core/unet.py: the block-selector parser parse_unet_blocks    *)
(* (with its run-length helper group_blocks) and the attention override    *)
(* returned by seg_attention_wrapper.                                      *)
(*                                                                         *)
(* Python values are represented as follows.                               *)
(*   str            a TLA+ string                                          *)
(*   list / tuple   a sequence                                             *)
(*   None / n       <<>> / <<n>>  (an optional integer)                    *)
(*   a call         a record [kind, value]; kind is "ok" or the name of    *)
(*                  the exception the call raises                          *)
(***************************************************************************)
EXTENDS Integers, Sequences, FiniteSets, TLC

VARIABLES pc, layout, modules, tokens, unet_block_list, output, blocks, grouped,
          q, k, v, extra_options, blur_sigma, border_mode, seg

parserVars == <<layout, modules, tokens, unet_block_list, output>>

groupVars == <<blocks, grouped>>

segVars == <<q, k, v, extra_options, blur_sigma, border_mode, seg>>

vars == <<pc, parserVars, groupVars, segVars>>

-----------------------------------------------------------------------------
(* Python string and list primitives used by the source.                   *)

Whitespace == {" ", "\t"}

DigitChars == {"0", "1", "2", "3", "4", "5", "6", "7", "8", "9"}

CharAt(s, i) == SubSeq(s, i, i)

\* s[i:] for 0 <= i (a slice never raises)
SliceFrom(s, i) == SubSeq(s, i + 1, Len(s))

StartsWith(s, p) == Len(s) >= Len(p) /\ SubSeq(s, 1, Len(p)) = p

EndsWith(s, p) == Len(s) >= Len(p) /\ SubSeq(s, Len(s) - Len(p) + 1, Len(s)) = p

RECURSIVE LStrip(_)
LStrip(s) == IF s # "" /\ Head(s) \in Whitespace THEN LStrip(Tail(s)) ELSE s

RECURSIVE RStrip(_)
RStrip(s) ==
    IF s # "" /\ CharAt(s, Len(s)) \in Whitespace
    THEN RStrip(SubSeq(s, 1, Len(s) - 1))
    ELSE s

\* str.strip()
Strip(s) == RStrip(LStrip(s))

\* str.split(sep) for a one-character sep: always at least one field; the
\* field that starts at position `start`, scanned up to position i
RECURSIVE SplitFrom(_, _, _, _)
SplitFrom(s, sep, start, i) ==
    IF i > Len(s) THEN <<SubSeq(s, start, Len(s))>>
    ELSE IF CharAt(s, i) = sep
    THEN <<SubSeq(s, start, i - 1)>> \o SplitFrom(s, sep, i + 1, i + 1)
    ELSE SplitFrom(s, sep, start, i + 1)

Split(s, sep) == SplitFrom(s, sep, 1, 1)

DigitValue(c) ==
    CASE c = "0" -> 0 [] c = "1" -> 1 [] c = "2" -> 2 [] c = "3" -> 3
      [] c = "4" -> 4 [] c = "5" -> 5 [] c = "6" -> 6 [] c = "7" -> 7
      [] c = "8" -> 8 [] c = "9" -> 9

\* the digits of an int literal: digits, single underscores between them
IsIntBody(t) ==
    /\ t # ""
    /\ Head(t) \in DigitChars
    /\ CharAt(t, Len(t)) \in DigitChars
    /\ \A i \in 1..Len(t) : CharAt(t, i) \in DigitChars \cup {"_"}
    /\ \A i \in 1..(Len(t) - 1) : ~(CharAt(t, i) = "_" /\ CharAt(t, i + 1) = "_")

RECURSIVE DigitsValue(_, _)
DigitsValue(t, acc) ==
    IF t = "" THEN acc
    ELSE DigitsValue(Tail(t),
                     IF Head(t) = "_" THEN acc ELSE 10 * acc + DigitValue(Head(t)))

\* int(s): surrounding whitespace and one sign are accepted; anything else
\* is a ValueError (ok = FALSE)
PyInt(s) ==
    LET t      == Strip(s)
        signed == t # "" /\ Head(t) \in {"+", "-"}
        body   == IF signed THEN Tail(t) ELSE t
    IN  IF IsIntBody(body)
        THEN [ok |-> TRUE,
              val |-> IF signed /\ Head(t) = "-"
                      THEN 0 - DigitsValue(body, 0)
                      ELSE DigitsValue(body, 0)]
        ELSE [ok |-> FALSE, val |-> 0]

\* list[i]: a negative i counts from the end; outside -n..n-1 is an IndexError
InRange(list, i) == 0 - Len(list) <= i /\ i < Len(list)

Item(list, i) == IF i >= 0 THEN list[i + 1] ELSE list[Len(list) + i + 1]

None == <<>>

Some(n) == <<n>>

Ok(result) == [kind |-> "ok", value |-> result]

Raise(e) == [kind |-> e, value |-> <<>>]

\* no call made yet
NoCall == [kind |-> "none", value |-> <<>>]

\* the variables of the operations a specification does not exercise
NoParse ==
    /\ layout = [input |-> <<>>, middle |-> <<>>, output |-> <<>>]
    /\ modules = <<>>
    /\ tokens = <<>>
    /\ unet_block_list = ""
    /\ output = NoCall

NoGroup == blocks = <<>> /\ grouped = <<>>

NoSeg ==
    /\ q = <<>>
    /\ k = <<>>
    /\ v = <<>>
    /\ extra_options = <<>>
    /\ blur_sigma = 0
    /\ border_mode = ""
    /\ seg = NoCall

-----------------------------------------------------------------------------
(* parse_unet_blocks, step 1: the self-attention blocks of the model.      *)

\* a variant that numbers the middle blocks as the other groups
VisitModuleNoOffset(m, lists) ==
    IF m.cls = "CrossAttention" /\ EndsWith(m.name, "attn1")
    THEN LET parts == Split(m.name, ".")
             block_id == PyInt(parts[2])
         IN  IF StartsWith(parts[1], "input")
             THEN Ok([lists EXCEPT !.input = Append(@, block_id.val)])
             ELSE IF StartsWith(parts[1], "middle")
             THEN Ok([lists EXCEPT !.middle = Append(@, block_id.val)])
             ELSE IF StartsWith(parts[1], "output")
             THEN Ok([lists EXCEPT !.output = Append(@, block_id.val)])
             ELSE Ok(lists)
    ELSE Ok(lists)

\* one module of named_modules(): the three lists after visiting it
VisitModule(m, lists) ==
    IF m.cls = "CrossAttention" /\ EndsWith(m.name, "attn1")
    THEN LET parts == Split(m.name, ".")
         IN  IF Len(parts) < 2 THEN Raise("IndexError")
             ELSE LET block_name == parts[1]
                      block_id   == PyInt(parts[2])
                  IN  IF ~block_id.ok THEN Raise("ValueError")
                      ELSE IF StartsWith(block_name, "input")
                      THEN Ok([lists EXCEPT !.input = Append(@, block_id.val)])
                      ELSE IF StartsWith(block_name, "middle")
                      THEN Ok([lists EXCEPT !.middle = Append(@, block_id.val - 1)])
                      ELSE IF StartsWith(block_name, "output")
                      THEN Ok([lists EXCEPT !.output = Append(@, block_id.val)])
                      ELSE Ok(lists)
    ELSE Ok(lists)

RECURSIVE CollectFrom(_, _, _)
CollectFrom(mods, i, lists) ==
    IF i > Len(mods) THEN Ok(lists)
    ELSE LET r == VisitModule(mods[i], lists)
         IN  IF r.kind # "ok" THEN r ELSE CollectFrom(mods, i + 1, r.value)

\* the loop over model.diffusion_model.named_modules()
CollectBlocks(mods) ==
    CollectFrom(mods, 1, [input |-> <<>>, middle |-> <<>>, output |-> <<>>])

-----------------------------------------------------------------------------
(* parse_unet_blocks, step 2: group_blocks, itertools.groupby on a list.   *)

\* a variant that counts every later occurrence of the value at position i
RECURSIVE RunLengthOfValue(_, _)
RunLengthOfValue(list, i) ==
    1 + (IF \E j \in (i + 1)..Len(list) : list[j] = list[i]
         THEN RunLengthOfValue(list,
                  CHOOSE j \in (i + 1)..Len(list) :
                      /\ list[j] = list[i]
                      /\ \A h \in (i + 1)..(j - 1) : list[h] # list[i])
         ELSE 0)

\* the length of the run of equal values that starts at position i
RECURSIVE RunLength(_, _)
RunLength(list, i) ==
    IF i < Len(list) /\ list[i + 1] = list[i]
    THEN 1 + RunLength(list, i + 1)
    ELSE 1

RECURSIVE GroupFrom(_, _)
GroupFrom(list, i) ==
    IF i > Len(list) THEN <<>>
    ELSE LET n == RunLength(list, i)
         IN  <<(<<list[i], n>>)>> \o GroupFrom(list, i + n)

group_blocks(list) == GroupFrom(list, 1)

GroupAll(lists) ==
    [input  |-> group_blocks(lists.input),
     middle |-> group_blocks(lists.middle),
     output |-> group_blocks(lists.output)]

-----------------------------------------------------------------------------
(* parse_unet_blocks, step 3: the loop over the selector's tokens.         *)

\* the locals layer and cur_blocks: unbound until a case of the match binds
\* them, and kept from the previous iteration when no case matches
Unbound == [bound |-> FALSE, layer |-> "", cur_blocks |-> <<>>]

Bind(layer, cur_blocks) ==
    [bound |-> TRUE, layer |-> layer, cur_blocks |-> cur_blocks]

\* match name: case "d" / "m" / "u", and no default case
MatchName(name, groups, env) ==
    CASE name = "d" -> Bind("input", groups.input)
      [] name = "m" -> Bind("middle", groups.middle)
      [] name = "u" -> Bind("output", groups.output)
      [] OTHER      -> env

\* a variant that takes the position in the list for the block number
BlockNumberIsPosition(cur_blocks, pos) ==
    IF pos >= 0 THEN pos ELSE Len(cur_blocks) + pos

\* the number of the addressed run: the value of the pair, cur_blocks[..][0]
BlockNumber(cur_blocks, pos) == Item(cur_blocks, pos)[1]

\* the length of the addressed run, cur_blocks[..][1]
BlockCount(cur_blocks, pos) == Item(cur_blocks, pos)[2]

\* a variant whose upper bound is off by one
IndexAssertedInclusive(index, count) == 0 <= index /\ index <= count

\* assert 0 <= index < cur_blocks[int(indices[0])][1]
IndexAsserted(index, count) == 0 <= index /\ index < count

\* the body of the loop after the match: number and index of one token,
\* evaluated in the order of the source
BlockAddress(indices, env) ==
    IF ~env.bound THEN Raise("UnboundLocalError")
    ELSE LET pos == PyInt(indices[1])
         IN  IF ~pos.ok THEN Raise("ValueError")
             ELSE IF ~InRange(env.cur_blocks, pos.val) THEN Raise("IndexError")
             ELSE IF Len(indices) >= 2
             THEN LET index == PyInt(indices[2])
                  IN  IF ~index.ok THEN Raise("ValueError")
                      ELSE IF ~IndexAsserted(index.val,
                                             BlockCount(env.cur_blocks, pos.val))
                      THEN Raise("AssertionError")
                      ELSE Ok(<<env.layer,
                                BlockNumber(env.cur_blocks, pos.val),
                                Some(index.val)>>)
             ELSE Ok(<<env.layer, BlockNumber(env.cur_blocks, pos.val), None>>)

RECURSIVE ParseFrom(_, _, _, _, _)
ParseFrom(unet_blocks, i, groups, env, out) ==
    IF i > Len(unet_blocks) THEN Ok(out)
    ELSE LET block == unet_blocks[i]
         IN  IF block = "" THEN Raise("IndexError")
             ELSE LET name    == CharAt(block, 1)
                      indices == Split(SliceFrom(block, 1), ".")
                      env2    == MatchName(name, groups, env)
                      r       == BlockAddress(indices, env2)
                  IN  IF r.kind # "ok" THEN r
                      ELSE ParseFrom(unet_blocks, i + 1, groups, env2,
                                     Append(out, r.value))

\* unet_blocks = [b.strip() for b in unet_block_list.split(",")]
StripAll(list) == [i \in 1..Len(list) |-> Strip(list[i])]

parse_unet_blocks(mods, selector) ==
    LET lists == CollectBlocks(mods)
    IN  IF lists.kind # "ok" THEN Raise(lists.kind)
        ELSE ParseFrom(StripAll(Split(selector, ",")), 1,
                       GroupAll(lists.value), Unbound, <<>>)

-----------------------------------------------------------------------------
(* seg_attention_wrapper.  A tensor is a nested sequence, one level per    *)
(* axis; its elements are exact rationals <<numerator, denominator>>.      *)
(* blur_sigma is held in quarters (blur_sigma = 3 stands for 0.75), so     *)
(* that 6 * blur_sigma is computed exactly.                                *)
(* GaussianBlur2d and the wrapped attention function are not part of the   *)
(* repository: a call of either is recorded with its arguments, and its    *)
(* result is a value that names the call.                                  *)

RECURSIVE Gcd(_, _)
Gcd(a, b) == IF b = 0 THEN a ELSE Gcd(b, a % b)

Abs(n) == IF n < 0 THEN 0 - n ELSE n

\* the rational n / d in lowest terms, d > 0
Rat(n, d) == LET g == Gcd(Abs(n), d) IN <<n \div g, d \div g>>

RatAdd(x, y) == Rat(x[1] * y[2] + y[1] * x[2], x[2] * y[2])

RECURSIVE RatSum(_)
RatSum(list) == IF list = <<>> THEN <<0, 1>> ELSE RatAdd(list[1], RatSum(Tail(list)))

\* round(x ** 0.5) for x = n / d: round() rounds a half to the even integer
RoundSqrt(n, d) ==
    CHOOSE r \in 0..(n + 1) :
        /\ \/ 4 * n < (2 * r + 1) * (2 * r + 1) * d
           \/ 4 * n = (2 * r + 1) * (2 * r + 1) * d /\ r % 2 = 0
        /\ \A s \in 0..(r - 1) :
               /\ ~(4 * n < (2 * s + 1) * (2 * s + 1) * d)
               /\ ~(4 * n = (2 * s + 1) * (2 * s + 1) * d /\ s % 2 = 0)

\* t.permute(0, 2, 1)
Permute021(t) ==
    [b \in 1..Len(t) |->
        [c \in 1..Len(t[b][1]) |->
            [a \in 1..Len(t[b]) |-> t[b][a][c]]]]

\* a variant that splits the flattened axis column by column
Reshape4ColumnMajor(t, height, width) ==
    [b \in 1..Len(t) |->
        [c \in 1..Len(t[b]) |->
            [i \in 1..height |->
                [j \in 1..width |-> t[b][c][(j - 1) * height + i]]]]]

\* t.reshape(bs, inner_dim, height, width) of a (bs, inner_dim, area) tensor
Reshape4(t, height, width) ==
    [b \in 1..Len(t) |->
        [c \in 1..Len(t[b]) |->
            [i \in 1..height |->
                [j \in 1..width |-> t[b][c][(i - 1) * width + j]]]]]

\* t.reshape(bs, inner_dim, -1) of a (bs, inner_dim, height, width) tensor
Reshape3(t) ==
    [b \in 1..Len(t) |->
        [c \in 1..Len(t[b]) |->
            LET height == Len(t[b][c])
                width  == Len(t[b][c][1])
            IN  [n \in 1..(height * width) |->
                    t[b][c][((n - 1) \div width) + 1][((n - 1) % width) + 1]]]]

\* the rows of a (height, width) plane, one after the other
RECURSIVE Flatten(_)
Flatten(plane) == IF plane = <<>> THEN <<>> ELSE plane[1] \o Flatten(Tail(plane))

\* a variant that averages over the last axis only
MeanLastAxis(t) ==
    [b \in 1..Len(t) |->
        [c \in 1..Len(t[b]) |->
            [i \in 1..Len(t[b][c]) |->
                [j \in 1..Len(t[b][c][i]) |->
                    LET s == RatSum(t[b][c][i])
                    IN  Rat(s[1], s[2] * Len(t[b][c][i]))]]]]

\* q[:] = q.mean(dim=(-2, -1), keepdim=True): the mean of each plane,
\* broadcast to the plane
MeanCollapse(t) ==
    [b \in 1..Len(t) |->
        [c \in 1..Len(t[b]) |->
            LET plane == t[b][c]
                s     == RatSum(Flatten(plane))
                mean  == Rat(s[1], s[2] * Len(plane) * Len(plane[1]))
            IN  [i \in 1..Len(plane) |-> [j \in 1..Len(plane[i]) |-> mean]]]]

\* a variant that does not force the kernel size odd
CeilOnly(sigma) == (3 * sigma + 1) \div 2

\* math.ceil(6 * blur_sigma), plus 1 if even; sigma in quarters
OddKernel(sigma) ==
    LET kernel_size == (3 * sigma + 1) \div 2
    IN  IF kernel_size % 2 = 0 THEN kernel_size + 1 ELSE kernel_size

Min(a, b) == IF a <= b THEN a ELSE b

\* min(kernel_size, 2 * min(q.shape[-2], q.shape[-1]) - 1)
CappedKernel(sigma, height, width) ==
    Min(OddKernel(sigma), 2 * Min(height, width) - 1)

\* if kernel_size >= 3
KernelBlurs(kernel_size) == kernel_size >= 3

\* GaussianBlur2d(kernel_size, sigma, border_type)(t): the call, and a
\* result of the shape of t that names it
BlurCall(t, kernel_size, sigma, border) ==
    [kernel_size |-> <<kernel_size, kernel_size>>,
     sigma       |-> <<sigma, sigma>>,
     border_type |-> border,
     input       |-> t]

Blurred(t) ==
    [b \in 1..Len(t) |->
        [c \in 1..Len(t[b]) |->
            [i \in 1..Len(t[b][c]) |->
                [j \in 1..Len(t[b][c][i]) |-> <<"blurred", b, c, i, j>>]]]]

\* attention(q.reshape(bs, inner_dim, -1).permute(0, 2, 1), k, v, heads=heads)
AttentionCall(q4, kk, vv, heads) ==
    [q |-> Permute021(Reshape3(q4)), k |-> kk, v |-> vv, heads |-> heads]

\* the result of the call number n of the wrapped attention function
AttentionResult(n) == [attention_call |-> n]

SegRaise(e) ==
    [kind |-> e, rounded |-> <<>>, shape |-> <<>>, kernel_size |-> <<>>,
     blurs |-> <<>>, calls |-> <<>>, value |-> <<>>]

\* the steps after the first reshape: perturbation, reshape back, delegation
Perturb(q4, rounded, kk, vv, heads, sigma, border) ==
    LET height == Len(q4[1][1])
        width  == Len(q4[1][1][1])
        kernel_size == CappedKernel(sigma, height, width)
        blurs == IF sigma >= 0 /\ KernelBlurs(kernel_size)
                 THEN <<BlurCall(q4, kernel_size, sigma, border)>>
                 ELSE <<>>
        q4p   == IF sigma >= 0
                 THEN IF KernelBlurs(kernel_size) THEN Blurred(q4) ELSE q4
                 ELSE MeanCollapse(q4)
    IN  [kind        |-> "ok",
         rounded     |-> <<rounded>>,
         shape       |-> <<height, width>>,
         kernel_size |-> IF sigma >= 0 THEN <<kernel_size>> ELSE <<>>,
         blurs       |-> blurs,
         calls       |-> <<AttentionCall(q4p, kk, vv, heads)>>,
         value       |-> AttentionResult(1)]

\* a variant of the reshape that drops the elements that do not fill a row
ReshapeFitsAlways(area, rounded) == rounded # 0

\* reshape with one dimension given and the other -1: the given dimension
\* must be non-zero and divide the number of elements
ReshapeFits(area, rounded) == rounded # 0 /\ area % rounded = 0

\* the function returned by seg_attention_wrapper(attention, blur_sigma,
\* border_mode)
seg_perturbed_attention(qq, kk, vv, options, sigma, border) ==
    IF "n_heads" \notin DOMAIN options THEN SegRaise("KeyError")
    ELSE IF "original_shape" \notin DOMAIN options THEN SegRaise("KeyError")
    ELSE
      LET heads       == options.n_heads
          area        == Len(qq[1])
          height_orig == options.original_shape[3]
          width_orig  == options.original_shape[4]
      IN  IF width_orig >= height_orig
          THEN \* aspect_ratio >= 1.0
               LET height == RoundSqrt(area * height_orig, width_orig)
               IN  IF ~ReshapeFits(area, height)
                   THEN [SegRaise("RuntimeError") EXCEPT !.rounded = <<height>>]
                   ELSE Perturb(Reshape4(Permute021(qq), height, area \div height),
                                height, kk, vv, heads, sigma, border)
          ELSE LET width == RoundSqrt(area * width_orig, height_orig)
               IN  IF ~ReshapeFits(area, width)
                   THEN [SegRaise("RuntimeError") EXCEPT !.rounded = <<width>>]
                   ELSE Perturb(Reshape4(Permute021(qq), area \div width, width),
                                width, kk, vv, heads, sigma, border)

-----------------------------------------------------------------------------
(* The attention override as a state machine: a sampler holds q, k, v and  *)
(* the options of one attention layer, and calls the override once.        *)

\* the largest number of token positions of q
MaxArea == 9

\* the largest original height and width
MaxSide == 4

\* the largest blur_sigma, in quarters
MaxSigma == 4

\* the batch size and the channel count of q
Batch == 2

InnerDim == 2

BorderModes == {"reflect", "replicate", "constant", "circular"}

\* a (Batch, area, InnerDim) tensor of distinct integers from `first` on
Tensor(area, first) ==
    [b \in 1..Batch |->
        [a \in 1..area |->
            [c \in 1..InnerDim |->
                <<first + ((b - 1) * area + (a - 1)) * InnerDim + (c - 1), 1>>]]]

OptionSets(height_orig, width_orig) ==
    { [n_heads |-> 8, original_shape |-> <<Batch, 4, height_orig, width_orig>>],
      [n_heads |-> 8],
      [original_shape |-> <<Batch, 4, height_orig, width_orig>>] }

InitSeg ==
    /\ pc = "sample"
    /\ NoParse
    /\ NoGroup
    /\ \E area \in 1..MaxArea :
         /\ q = Tensor(area, 0)
         /\ k = Tensor(area, 1000)
         /\ v = Tensor(area, 2000)
    /\ \E height_orig \in 1..MaxSide, width_orig \in 1..MaxSide :
         extra_options \in OptionSets(height_orig, width_orig)
    /\ blur_sigma \in -1..MaxSigma
    /\ border_mode \in BorderModes
    /\ seg = NoCall

SegCall ==
    /\ pc = "sample"
    /\ seg' = seg_perturbed_attention(q, k, v, extra_options, blur_sigma, border_mode)
    /\ pc' = "called"
    /\ UNCHANGED <<q, k, v, extra_options, blur_sigma, border_mode,
                   parserVars, groupVars>>

NextSeg == SegCall

SpecSeg == InitSeg /\ [][NextSeg]_vars

-----------------------------------------------------------------------------
(* The inputs of the parser.  A model is described by its layout, the runs *)
(* of self-attention blocks of each layer group, and presented to the code *)
(* as the enumeration named_modules() of a network with that layout.  A    *)
(* selector is described by its tokens and presented as their text.        *)

\* the longest selector text
MaxLen == 7

\* the most tokens of a selector
MaxTokens == 2

RECURSIVE ToDigits(_)
ToDigits(n) ==
    IF n < 10 THEN CharAt("0123456789", n + 1)
    ELSE ToDigits(n \div 10) \o CharAt("0123456789", (n % 10) + 1)

\* str(n)
ToDecimal(n) == IF n < 0 THEN "-" \o ToDigits(0 - n) ELSE ToDigits(n)

RECURSIVE Join(_, _)
Join(list, sep) ==
    IF list = <<>> THEN ""
    ELSE IF Len(list) = 1 THEN list[1]
    ELSE list[1] \o sep \o Join(Tail(list), sep)

\* the modules of transformer block n ("tb") of the block numbered id: its
\* self-attention, a projection inside it, and its cross-attention
BlockModules(prefix, id, n) ==
    LET base == prefix \o "." \o ToDecimal(id) \o ".tb." \o ToDecimal(n)
    IN  << [name |-> base \o ".attn1", cls |-> "CrossAttention"],
           [name |-> base \o ".attn1.to_q", cls |-> "Linear"],
           [name |-> base \o ".attn2", cls |-> "CrossAttention"] >>

RECURSIVE RunModules(_, _, _, _)
RunModules(prefix, id, count, n) ==
    IF n >= count THEN <<>>
    ELSE BlockModules(prefix, id, n) \o RunModules(prefix, id, count, n + 1)

RECURSIVE LayerModules(_, _, _)
LayerModules(prefix, runs, offset) ==
    IF runs = <<>> THEN <<>>
    ELSE RunModules(prefix, runs[1][1] + offset, runs[1][2], 0)
         \o LayerModules(prefix, Tail(runs), offset)

\* named_modules() of a network with the given layout; the middle group
\* numbers its blocks from 1
Enumerate(l) ==
    LayerModules("input_blocks", l.input, 0)
    \o LayerModules("middle_block", l.middle, 1)
    \o LayerModules("output_blocks", l.output, 0)

\* two networks: one without self-attention in its output blocks, one
\* without self-attention in its input blocks
Layouts ==
    { [input  |-> << <<1, 2>>, <<2, 1>> >>,
       middle |-> << <<0, 1>> >>,
       output |-> <<>>],
      [input  |-> <<>>,
       middle |-> << <<0, 1>> >>,
       output |-> << <<3, 1>>, <<4, 2>> >>] }

Names == {"d", "m", "u", "x"}

Positions == {-1, 0, 1}

SubIndices == {-1, 0, 1, 2}

\* the integer fields of a token: none, a position, a position and a
\* sub-index, or these and a third field
FieldLists ==
    {<<>>} \cup { <<p>> : p \in Positions }
           \cup { <<p, s>> : p \in Positions, s \in SubIndices }
           \cup { <<p, 0, 0>> : p \in Positions }

\* where a token carries a space: nowhere, before it, after it, or between
\* its layer character and its fields
Spaces == {"none", "lead", "trail", "gap"}

FieldTexts(f) == [i \in 1..Len(f) |-> ToDecimal(f[i])]

TokenText(name, fields, space) ==
    (IF space = "lead" THEN " " ELSE "")
    \o name
    \o (IF space = "gap" THEN " " ELSE "")
    \o Join(FieldTexts(fields), ".")
    \o (IF space = "trail" THEN " " ELSE "")

\* a token: its layer character, its fields, its space and its text; the
\* token of no characters is the empty token
TokenSet ==
    { [name |-> n, fields |-> f, space |-> s, text |-> TokenText(n, f, s)] :
        n \in Names, f \in FieldLists, s \in Spaces }
    \cup { [name |-> "", fields |-> <<>>, space |-> "none", text |-> ""] }

\* the text of a selector that already holds the tokens of text `written`
Extend(n, written, t) == IF n = 0 THEN t.text ELSE written \o "," \o t.text

-----------------------------------------------------------------------------
(* The parser as a state machine: a caller writes a selector token by      *)
(* token, then calls parse_unet_blocks on the model and the selector.      *)

InitParse ==
    /\ pc = "write"
    /\ layout \in Layouts
    /\ modules = Enumerate(layout)
    /\ tokens = <<>>
    /\ unet_block_list = ""
    /\ output = NoCall
    /\ NoGroup
    /\ NoSeg

AddToken ==
    /\ pc = "write"
    /\ Len(tokens) < MaxTokens
    /\ \E t \in TokenSet :
         /\ Len(Extend(Len(tokens), unet_block_list, t)) <= MaxLen
         /\ tokens' = Append(tokens, t)
         /\ unet_block_list' = Extend(Len(tokens), unet_block_list, t)
    /\ UNCHANGED <<pc, layout, modules, output, groupVars, segVars>>

ParseCall ==
    /\ pc = "write"
    /\ tokens # <<>>
    /\ output' = parse_unet_blocks(modules, unet_block_list)
    /\ pc' = "parsed"
    /\ UNCHANGED <<layout, modules, tokens, unet_block_list, groupVars, segVars>>

NextParse == AddToken \/ ParseCall

SpecParse == InitParse /\ [][NextParse]_vars

-----------------------------------------------------------------------------
(* The example of the specification: the network whose groups are          *)
(* input=[(0,3),(1,2)], middle=[(0,1),(1,4)], output=[(2,1),(3,5)], and    *)
(* selectors written with the tokens of its examples.                      *)

\* the most tokens of a selector of the example
MaxExampleTokens == 3

ExampleLayout ==
    [input  |-> << <<0, 3>>, <<1, 2>> >>,
     middle |-> << <<0, 1>>, <<1, 4>> >>,
     output |-> << <<2, 1>>, <<3, 5>> >>]

ExampleTokens ==
    { [name |-> n, fields |-> f, space |-> "none", text |-> TokenText(n, f, "none")] :
        n \in {"d"}, f \in {<<0>>} }
    \cup
    { [name |-> n, fields |-> f, space |-> "none", text |-> TokenText(n, f, "none")] :
        n \in {"m"}, f \in {<<1, 2>>, <<1, 5>>} }
    \cup
    { [name |-> n, fields |-> f, space |-> "none", text |-> TokenText(n, f, "none")] :
        n \in {"u"}, f \in {<<1>>, <<3>>} }
    \cup
    { [name |-> n, fields |-> f, space |-> "none", text |-> TokenText(n, f, "none")] :
        n \in {"x"}, f \in {<<0>>} }

InitExample ==
    /\ pc = "write"
    /\ layout = ExampleLayout
    /\ modules = Enumerate(layout)
    /\ tokens = <<>>
    /\ unet_block_list = ""
    /\ output = NoCall
    /\ NoGroup
    /\ NoSeg

AddExampleToken ==
    /\ pc = "write"
    /\ Len(tokens) < MaxExampleTokens
    /\ \E t \in ExampleTokens :
         /\ tokens' = Append(tokens, t)
         /\ unet_block_list' = Extend(Len(tokens), unet_block_list, t)
    /\ UNCHANGED <<pc, layout, modules, output, groupVars, segVars>>

NextExample == AddExampleToken \/ ParseCall

SpecExample == InitExample /\ [][NextExample]_vars

-----------------------------------------------------------------------------
(* group_blocks as a state machine: a list of block indices is collected,  *)
(* then grouped.                                                           *)

\* the longest list of block indices
MaxBlocks == 6

\* the largest block index
MaxBlockId == 1

InitGroup ==
    /\ pc = "collect"
    /\ NoParse
    /\ NoGroup
    /\ NoSeg

AddBlock ==
    /\ pc = "collect"
    /\ Len(blocks) < MaxBlocks
    /\ \E id \in 0..MaxBlockId : blocks' = Append(blocks, id)
    /\ UNCHANGED <<pc, grouped, parserVars, segVars>>

GroupCall ==
    /\ pc = "collect"
    /\ grouped' = group_blocks(blocks)
    /\ pc' = "grouped"
    /\ UNCHANGED <<blocks, parserVars, segVars>>

NextGroup == AddBlock \/ GroupCall

SpecGroup == InitGroup /\ [][NextGroup]_vars

-----------------------------------------------------------------------------
(* What the specification says of a selector, read off its tokens and the  *)
(* layout of the network.                                                  *)

LayerChars == {"d", "m", "u"}

LayerOf(name) ==
    CASE name = "d" -> "input" [] name = "m" -> "middle" [] name = "u" -> "output"

RunsOf(l, name) ==
    CASE name = "d" -> l.input [] name = "m" -> l.middle [] name = "u" -> l.output

\* token := layer_char digits ('.' digits)?, whitespace around it ignored
InGrammar(t) ==
    /\ t.name \in LayerChars
    /\ t.space \in {"none", "lead", "trail"}
    /\ Len(t.fields) \in {1, 2}
    /\ \A i \in 1..Len(t.fields) : t.fields[i] >= 0

\* a token of the grammar whose position and sub-index are within the runs
ValidToken(l, t) ==
    /\ InGrammar(t)
    /\ t.fields[1] < Len(RunsOf(l, t.name))
    /\ Len(t.fields) = 2 => t.fields[2] < RunsOf(l, t.name)[t.fields[1] + 1][2]

\* the address the specification gives a valid token
AddressOf(l, t) ==
    << LayerOf(t.name),
       RunsOf(l, t.name)[t.fields[1] + 1][1],
       IF Len(t.fields) = 2 THEN <<t.fields[2]>> ELSE <<>> >>

AllValid(l, ts) == \A i \in 1..Len(ts) : ValidToken(l, ts[i])

\* C1: a selector whose tokens are all valid parses to one address per
\* token, in the order of the tokens: the layer group of the token's first
\* character, the value of the run at the token's position (not the position
\* itself), and the sub-index if the token gives one, else None.
C1_OneAddressPerToken ==
    (pc = "parsed" /\ AllValid(layout, tokens))
        => output = Ok([i \in 1..Len(tokens) |-> AddressOf(layout, tokens[i])])

C1_Witness ==
    /\ pc = "parsed"
    /\ Len(tokens) = 2
    /\ AllValid(layout, tokens)
    /\ tokens[1].name # tokens[2].name
    /\ Len(tokens[1].fields) = 1
    /\ Len(tokens[2].fields) = 2
    /\ tokens[2].fields[1] = 0
    /\ output.kind = "ok"
    /\ output.value[2][2] # 0

\* C2: a selector with a token whose first character is none of d, m, u
\* fails, wherever that token stands.
C2_InvalidPrefixFails ==
    (pc = "parsed" /\ \E i \in 1..Len(tokens) : tokens[i].name = "x")
        => output.kind # "ok"

\* C3: only a selector of the grammar token (',' token)* yields a list.
C3_OnlyGrammarParses ==
    (pc = "parsed" /\ output.kind = "ok")
        => \A i \in 1..Len(tokens) : InGrammar(tokens[i])

\* the layer character in force at token i: the last of d, m, u among the
\* first characters of tokens 1..i, or "" when there is none
RECURSIVE NameInForce(_, _)
NameInForce(ts, i) ==
    IF i = 0 THEN ""
    ELSE IF ts[i].name \in LayerChars THEN ts[i].name
    ELSE NameInForce(ts, i - 1)

\* token i gives a sub-index for an existing run of the layer in force
AddressesRun(l, ts, i) ==
    /\ Len(ts[i].fields) >= 2
    /\ NameInForce(ts, i) # ""
    /\ ts[i].fields[1] >= 0
    /\ ts[i].fields[1] < Len(RunsOf(l, NameInForce(ts, i)))

CountOf(l, ts, i) == RunsOf(l, NameInForce(ts, i))[ts[i].fields[1] + 1][2]

\* C4: a token that gives a sub-index is emitted, with that sub-index, only
\* when 0 <= subIndex < count of the run it addresses; a sub-index outside
\* that range (the count itself, a negative one) makes the whole call fail
\* with an assertion error, also after valid tokens.
C4_SubIndexAsserted ==
    pc = "parsed" =>
        /\ output.kind = "ok" =>
             \A i \in 1..Len(tokens) :
                 AddressesRun(layout, tokens, i) =>
                     /\ 0 <= tokens[i].fields[2]
                     /\ tokens[i].fields[2] < CountOf(layout, tokens, i)
                     /\ output.value[i][3] = <<tokens[i].fields[2]>>
        /\ \A i \in 1..Len(tokens) :
               ( /\ AllValid(layout, SubSeq(tokens, 1, i - 1))
                 /\ AddressesRun(layout, tokens, i)
                 /\ ~( /\ 0 <= tokens[i].fields[2]
                       /\ tokens[i].fields[2] < CountOf(layout, tokens, i) ) )
                   => output = Raise("AssertionError")

C4_Witness ==
    /\ pc = "parsed"
    /\ Len(tokens) = 2
    /\ ValidToken(layout, tokens[1])
    /\ tokens[2].name = "d"
    /\ tokens[2].fields = <<0, 2>>
    /\ AddressesRun(layout, tokens, 2)
    /\ CountOf(layout, tokens, 2) = 2
    /\ output.kind = "AssertionError"

\* C5 as written: with the groups of the example, "d0,m1.2,u3" parses to
\* [("input",0,None), ("middle",1,2), ("output",3,None)].
C5_ExampleAsWritten ==
    (pc = "parsed" /\ unet_block_list = "d0,m1.2,u3")
        => output = Ok(<< <<"input", 0, <<>>>>, <<"middle", 1, <<2>>>>,
                          <<"output", 3, <<>>>> >>)

\* C5 amended: with the groups of the example, "d0,m1.2,u1" parses to
\* [("input",0,None), ("middle",1,2), ("output",3,None)], the output run of
\* value 3 standing at position 1; "d0,m1.2,u3" fails with an index error,
\* the output group having two runs only.
C5_ExampleByPosition ==
    pc = "parsed" =>
        /\ unet_block_list = "d0,m1.2,u1"
             => output = Ok(<< <<"input", 0, <<>>>>, <<"middle", 1, <<2>>>>,
                               <<"output", 3, <<>>>> >>)
        /\ unet_block_list = "d0,m1.2,u3" => output = Raise("IndexError")

C5_Witness ==
    /\ pc = "parsed"
    /\ layout = ExampleLayout
    /\ unet_block_list = "d0,m1.2,u1"
    /\ output.kind = "ok"
    /\ Len(output.value) = 3

\* count copies of value, for each pair (value, count) in order
RECURSIVE Expand(_)
Expand(pairs) ==
    IF pairs = <<>> THEN <<>>
    ELSE [i \in 1..pairs[1][2] |-> pairs[1][1]] \o Expand(Tail(pairs))

\* C10: group_blocks merges consecutive equal values only: every count is
\* at least 1, adjacent pairs have different values, expanding the pairs
\* gives the list back, and a value that reappears after another one forms
\* a pair of its own ([0,0,1,1,1,0] gives [(0,2),(1,3),(0,1)]).
C10_RunLengthEncoding ==
    pc = "grouped" =>
        /\ \A i \in 1..Len(grouped) : grouped[i][2] >= 1
        /\ \A i \in 1..(Len(grouped) - 1) : grouped[i][1] # grouped[i + 1][1]
        /\ Expand(grouped) = blocks
        /\ blocks = <<0, 0, 1, 1, 1, 0>>
             => grouped = << <<0, 2>>, <<1, 3>>, <<0, 1>> >>

C10_Witness ==
    /\ pc = "grouped"
    /\ blocks = <<0, 0, 1, 1, 1, 0>>
    /\ Len(grouped) = 3

-----------------------------------------------------------------------------
(* What the specification says of the attention override.                  *)

HasBothKeys == {"n_heads", "original_shape"} \subseteq DOMAIN extra_options

Area == Len(q[1])

HeightOrig == extra_options.original_shape[3]

WidthOrig == extra_options.original_shape[4]

\* C6: when blur_sigma >= 0 and the capped kernel size is below 3, the q
\* handed to the wrapped attention function is the caller's q, element for
\* element; in every branch the wrapped function is called exactly once,
\* with the caller's k and v, heads = extra_options["n_heads"], and its
\* result is returned as is.
C6_RoundTripAndDelegation ==
    (pc = "called" /\ seg.kind = "ok") =>
        /\ Len(seg.calls) = 1
        /\ seg.calls[1].k = k
        /\ seg.calls[1].v = v
        /\ seg.calls[1].heads = extra_options.n_heads
        /\ seg.value = [attention_call |-> 1]
        /\ (blur_sigma >= 0 /\ seg.kernel_size[1] < 3) => seg.calls[1].q = q

C6_Witness ==
    /\ pc = "called"
    /\ seg.kind = "ok"
    /\ blur_sigma = 0
    /\ seg.kernel_size = <<1>>
    /\ seg.shape = <<2, 4>>
    /\ seg.blurs = <<>>
    /\ seg.calls[1].q = q

\* C7: for blur_sigma >= 0 and a reshaped height and width of at least 1,
\* the kernel size after the odd-forcing and the cap is odd and at most
\* 2 * min(height, width) - 1; the blur is applied if and only if that
\* kernel size is at least 3, and then with that size in both dimensions.
C7_KernelOddAndCapped ==
    (pc = "called" /\ seg.kind = "ok" /\ blur_sigma >= 0) =>
        LET kernel_size == seg.kernel_size[1]
            smaller == IF seg.shape[1] <= seg.shape[2]
                       THEN seg.shape[1] ELSE seg.shape[2]
        IN  /\ smaller >= 1
            /\ kernel_size % 2 = 1
            /\ kernel_size <= 2 * smaller - 1
            /\ seg.blurs # <<>> <=> kernel_size >= 3
            /\ seg.blurs # <<>> =>
                 /\ Len(seg.blurs) = 1
                 /\ seg.blurs[1].kernel_size = <<kernel_size, kernel_size>>
                 /\ seg.blurs[1].sigma = <<blur_sigma, blur_sigma>>
                 /\ seg.blurs[1].border_type = border_mode

C7_Witness ==
    /\ pc = "called"
    /\ seg.kind = "ok"
    /\ blur_sigma = 4
    /\ seg.shape = <<2, 4>>
    /\ Len(seg.blurs) = 1
    /\ seg.blurs[1].kernel_size = <<3, 3>>

\* C8 as written: with both keys, positive original height and width and
\* any area >= 1, the call raises no exception unless the computed height
\* or width is zero.
C8_RaisesOnlyOnZero ==
    (pc = "called" /\ HasBothKeys /\ seg.kind # "ok") => seg.rounded = <<0>>

\* r is sqrt(n / d) rounded to the nearest integer, a half to the even one
IsRoundedSqrt(r, n, d) ==
    /\ r >= 0
    /\ r > 0 => (2 * r - 1) * (2 * r - 1) * d <= 4 * n
    /\ 4 * n <= (2 * r + 1) * (2 * r + 1) * d
    /\ 4 * n = (2 * r + 1) * (2 * r + 1) * d => r % 2 = 0
    /\ (r > 0 /\ 4 * n = (2 * r - 1) * (2 * r - 1) * d) => r % 2 = 0

\* C8 amended: with both keys, positive original height and width and any
\* area >= 1, the reshape succeeds exactly when the rounded dimension
\* (height = round(sqrt(area / aspectRatio)) for aspectRatio >= 1, width =
\* round(sqrt(area * aspectRatio)) otherwise) is non-zero and divides area;
\* the other dimension is then area divided by it (ratio 2.0, area 8: height
\* 2, width 4; ratio 0.5, area 8: width 2, height 4).  Otherwise the call
\* raises and the wrapped attention function is not called.
C8_ReshapeNeedsDivisor ==
    (pc = "called" /\ HasBothKeys) =>
        LET rounded == seg.rounded[1]
            wide    == WidthOrig >= HeightOrig
        IN  /\ wide => IsRoundedSqrt(rounded, Area * HeightOrig, WidthOrig)
            /\ ~wide => IsRoundedSqrt(rounded, Area * WidthOrig, HeightOrig)
            /\ seg.kind = "ok" <=> (rounded # 0 /\ Area % rounded = 0)
            /\ seg.kind # "ok" => (seg.kind = "RuntimeError" /\ seg.calls = <<>>)
            /\ seg.kind = "ok" =>
                 /\ wide => seg.shape = <<rounded, Area \div rounded>>
                 /\ ~wide => seg.shape = <<Area \div rounded, rounded>>
            /\ (Area = 8 /\ WidthOrig = 2 * HeightOrig) => seg.shape = <<2, 4>>
            /\ (Area = 8 /\ HeightOrig = 2 * WidthOrig) => seg.shape = <<4, 2>>

C8_Witness ==
    /\ pc = "called"
    /\ HasBothKeys
    /\ Area = 8
    /\ WidthOrig = 2 * HeightOrig
    /\ seg.kind = "ok"
    /\ seg.rounded = <<2>>
    /\ seg.shape = <<2, 4>>

\* the sum of the caller's q over all token positions, for one batch entry
\* and one channel
RECURSIVE SumOverPositions(_, _, _)
SumOverPositions(b, c, a) ==
    IF a = 0 THEN 0 ELSE q[b][a][c][1] + SumOverPositions(b, c, a - 1)

\* C9: with blur_sigma < 0, the q handed to the wrapped attention function
\* has, for every (batch, channel) pair, the same value at every token
\* position, the mean of the caller's q over all token positions for that
\* pair; no blur is applied.
C9_MeanCollapse ==
    (pc = "called" /\ seg.kind = "ok" /\ blur_sigma < 0) =>
        /\ seg.blurs = <<>>
        /\ Len(seg.calls[1].q) = Batch
        /\ \A b \in 1..Batch :
             /\ Len(seg.calls[1].q[b]) = Area
             /\ \A a \in 1..Area :
                  /\ Len(seg.calls[1].q[b][a]) = InnerDim
                  /\ \A c \in 1..InnerDim :
                       LET x == seg.calls[1].q[b][a][c]
                       IN  /\ x = seg.calls[1].q[b][1][c]
                           /\ x[2] > 0
                           /\ x[1] * Area = x[2] * SumOverPositions(b, c, Area)

C9_Witness ==
    /\ pc = "called"
    /\ seg.kind = "ok"
    /\ blur_sigma < 0
    /\ seg.shape = <<2, 3>>
    /\ seg.calls[1].q[1][1][1] = <<5, 1>>

=============================================================================
